---- MODULE Spec2Model ----
(***************************************************************************)
(* ControlBase (src/proxy/ControlBase.cc): the modifiers of a remap /      *)
(* cache-control rule line, their factories (make), their predicates       *)
(* (check), and the set operations ProcessModifiers, clear, CheckModifiers,*)
(* findModOfType and Print of the owning ControlBase.                      *)
(*                                                                         *)
(* C strings are sequences of one-character strings; a null char * is      *)
(* NoText, a null const char * message is nullptr, a null unique_ptr is    *)
(* NoMod.                                                                  *)
(***************************************************************************)
EXTENDS Integers, Sequences, FiniteSets, TLC

VARIABLES
  _mods,      \* ControlBase::_mods, the modifier set of the object
  line_info,  \* the matcher_line handed to the most recent ProcessModifiers
  ret,        \* the most recent call on the object and what it returned
  mk,         \* the most recent direct call of a make and how it ended
  pub,        \* reader/writer protocol: the published ControlBase version
  store,      \* reader/writer protocol: version -> its _mods
  writer,     \* reader/writer protocol: the configuration writer
  readers     \* reader/writer protocol: the request threads

vars == <<_mods, line_info, ret, mk, pub, store, writer, readers>>

\* ---------------------------------------------------------------- bounds

\* Slots of a matcher_line that are scanned (MATCHER_MAX_TOKENS, scaled down).
MaxTokens == 2

\* Request threads of the reader/writer protocol.
MaxReaders == 2

\* Versions the configuration writer builds in the reader/writer protocol.
MaxVersions == 2

\* ------------------------------------------------------------ C strings

Chars(s) == [i \in 1..Len(s) |-> SubSeq(s, i, i)]

NoText == <<"nullptr">>

nullptr == "nullptr"

NoMod == [kind |-> "nullptr"]

Min(a, b) == IF a <= b THEN a ELSE b

Take(s, n) == SubSeq(s, 1, Min(n, Len(s)))

Drop(s, n) == SubSeq(s, n + 1, Len(s))

UpperCase == Chars("ABCDEFGHIJKLMNOPQRSTUVWXYZ")

LowerCase == Chars("abcdefghijklmnopqrstuvwxyz")

LowerOf == [c \in {UpperCase[i] : i \in 1..26} |-> LowerCase[CHOOSE i \in 1..26 : UpperCase[i] = c]] @@ <<>>

tolower(c) == IF c \in DOMAIN LowerOf THEN LowerOf[c] ELSE c

Lowered(s) == [i \in 1..Len(s) |-> tolower(s[i])]

\* strcasecmp(a, b) == 0
strcasecmp0(a, b) == Lowered(a) = Lowered(b)

\* strncasecmp(a, b, n) == 0: at most n bytes are compared, a NUL ends both.
strncasecmp0(a, b, n) == Lowered(Take(a, n)) = Lowered(Take(b, n))

DecDigits == Chars("0123456789")

DigitOf == [c \in {DecDigits[i] : i \in 1..10} |-> (CHOOSE i \in 1..10 : DecDigits[i] = c) - 1] @@ <<>>

isdigit(c) == c \in DOMAIN DigitOf

DigitVal(c) == DigitOf[c]

RECURSIVE ScanDigits(_, _, _)
ScanDigits(s, i, acc) ==
  IF i <= Len(s) /\ isdigit(s[i])
  THEN ScanDigits(s, i + 1, acc * 10 + DigitVal(s[i]))
  ELSE [val |-> acc, next |-> i]

RECURSIVE SkipSpace(_, _)
SkipSpace(s, i) ==
  IF i <= Len(s) /\ s[i] = " " THEN SkipSpace(s, i + 1) ELSE i

\* One %d conversion of sscanf at position i: leading blanks, an optional
\* sign, then at least one digit. %u stored into an int gives the same int
\* (strtoul negates a signed input modulo 2^32). Inputs stay within an int.
ScanNumber(s, j, k, d) ==
  IF d.next = k
  THEN [ok |-> FALSE, val |-> 0, next |-> k]
  ELSE [ok |-> TRUE, val |-> IF k > j /\ s[j] = "-" THEN 0 - d.val ELSE d.val,
        next |-> d.next]

ScanSigned(s, j, k) == ScanNumber(s, j, k, ScanDigits(s, k, 0))

ScanBlank(s, j) ==
  ScanSigned(s, j, IF j <= Len(s) /\ s[j] \in {"-", "+"} THEN j + 1 ELSE j)

ScanInt(s, i) == ScanBlank(s, SkipSpace(s, i))

NoScan == [ok |-> FALSE, val |-> 0, next |-> 0]

\* sscanf(s, "%d", &v) and sscanf(s, "%u", &v): n the count of conversions.
ScanCount1(a) == [n |-> IF a.ok THEN 1 ELSE 0, v1 |-> a.val]

sscanf_d(s) == ScanCount1(ScanInt(s, 1))

\* A conversion that follows a literal ':' after the conversion a.
ScanAfterColon(s, a) ==
  IF a.ok /\ a.next <= Len(s) /\ s[a.next] = ":" THEN ScanInt(s, a.next + 1) ELSE NoScan

ScanCount3(a, b, c) ==
  [n |-> IF ~a.ok THEN 0 ELSE IF ~b.ok THEN 1 ELSE IF ~c.ok THEN 2 ELSE 3,
   v1 |-> a.val, v2 |-> b.val, v3 |-> c.val]

ScanThird(s, want, a, b) ==
  ScanCount3(a, b, IF want >= 3 THEN ScanAfterColon(s, b) ELSE NoScan)

ScanSecond(s, want, a) == ScanThird(s, want, a, ScanAfterColon(s, a))

\* sscanf(s, "%d:%d:%d", ...) stopped after at most `want` conversions
\* (want = 2 is the format "%d:%d").
sscanf_colon(s, want) == ScanSecond(s, want, ScanInt(s, 1))

\* Tokenizer::Initialize(str, SHARE_TOKS): the non-empty runs between
\* delimiters, in order.
RECURSIVE TokScan(_, _, _, _)
TokScan(s, delim, cur, acc) ==
  IF s = <<>>
  THEN IF cur = <<>> THEN acc ELSE Append(acc, cur)
  ELSE IF Head(s) = delim
       THEN TokScan(Tail(s), delim, <<>>, IF cur = <<>> THEN acc ELSE Append(acc, cur))
       ELSE TokScan(Tail(s), delim, Append(cur, Head(s)), acc)

Tokenizer_Initialize(str, delim) == TokScan(str, delim, <<>>, <<>>)

\* Tokenizer::operator[]: a null pointer past the last token.
Tokenizer_at(toks, i) == IF i < Len(toks) THEN toks[i + 1] ELSE NoText

\* ------------------------------------------------------ make outcomes

\* How a call of a make ends: the unique_ptr returned and the content of the
\* error slot afterwards, or the process killed by a fault.
Made(mod, error) == [mod |-> mod, error |-> error, crash |-> FALSE]

Crashed == [mod |-> NoMod, error |-> nullptr, crash |-> TRUE]

\* sscanf on a null string is undefined: the process faults inside the C
\* library, or a library that tests its argument reports an input failure.
sscanf_null == {"SIGSEGV", "EOF"}

\* ----------------------------------------------------------------- TimeMod

\* The range checks of timeOfDayToSeconds on what the two sscanf calls left
\* in hour, min and sec.
TimeOfDay(parsed, hour, min, sec) ==
  IF ~parsed
  THEN [error |-> "Malformed time specified", seconds |-> 0]
  ELSE IF ~(hour >= 0 /\ hour <= 23)
  THEN [error |-> "Illegal hour specification", seconds |-> 0]
  ELSE IF ~(min >= 0 /\ min <= 59)
  THEN [error |-> "Illegal minute specification", seconds |-> 0]
  ELSE IF ~(sec >= 0 /\ sec <= 59)
  THEN [error |-> "Illegal second specification", seconds |-> 0]
  ELSE [error |-> nullptr, seconds |-> (hour * 60 + min) * 60 + sec]

\* a: the result of the "%d:%d:%d" scan, b: of the "%d:%d" scan made when
\* the first did not convert three numbers.
TimeScanned(a, b) ==
  TimeOfDay(a.n = 3 \/ b.n = 2,
            IF a.n = 3 THEN a.v1 ELSE b.v1,
            IF a.n = 3 THEN a.v2 ELSE b.v2,
            IF a.n = 3 THEN a.v3 ELSE 0)

timeOfDayToSeconds(time_str) ==
  TimeScanned(sscanf_colon(time_str, 3), sscanf_colon(time_str, 2))

\* TimeRange that puts the two sides in order.
TimeRange_reordered(s, e) ==
  IF s.error # nullptr THEN {Made(NoMod, s.error)}
  ELSE IF e.error # nullptr THEN {Made(NoMod, e.error)}
  ELSE {Made([kind |-> "Time", start_time |-> Min(s.seconds, e.seconds),
              end_time |-> IF s.seconds > e.seconds THEN s.seconds ELSE e.seconds], nullptr)}

\* The modifier TimeMod::make builds from the two converted sides.
TimeRange(s, e) ==
  IF s.error # nullptr THEN {Made(NoMod, s.error)}
  ELSE IF e.error # nullptr THEN {Made(NoMod, e.error)}
  ELSE {Made([kind |-> "Time", start_time |-> s.seconds, end_time |-> e.seconds], nullptr)}

\* TimeMod::make once the value is tokenized; num_tok is Len(rangeTok).
TimeTokens(rangeTok) ==
  IF Len(rangeTok) = 1 THEN {Made(NoMod, "End time not specified")}
  ELSE IF Len(rangeTok) > 2 THEN {Made(NoMod, "Malformed time range")}
  ELSE IF Tokenizer_at(rangeTok, 0) = NoText
  THEN {IF o = "SIGSEGV" THEN Crashed ELSE Made(NoMod, "Malformed time specified")
          : o \in sscanf_null}
  ELSE TimeRange(timeOfDayToSeconds(Tokenizer_at(rangeTok, 0)),
                 timeOfDayToSeconds(Tokenizer_at(rangeTok, 1)))

TimeMod_make(value, error) == TimeTokens(Tokenizer_Initialize(value, "-"))

\* ink_localtime_r: the broken-down local time of a time_t (local zone UTC).
ink_localtime_r(t) ==
  LET d == t % 86400
  IN  [tm_hour |-> d \div 3600, tm_min |-> (d % 3600) \div 60, tm_sec |-> d % 60]

\* TimeMod_check with an exclusive end.
TimeMod_check_exclusiveEnd(m, req) ==
  m.start_time <= req.xact_start % 86400 /\ req.xact_start % 86400 < m.end_time

TimeMod_check(m, req) ==
  LET cur_time == ink_localtime_r(req.xact_start)
      timeOfDay == cur_time.tm_hour * (60 * 60) + cur_time.tm_min * 60 + cur_time.tm_sec
  IN  m.start_time <= timeOfDay /\ timeOfDay <= m.end_time

\* ----------------------------------------------------------------- PortMod

\* PortRange without the test of the order of the two ports.
PortRange_noOrderTest(num_tok, s, e) ==
  IF s.n # 1 THEN {Made(NoMod, "Invalid start port")}
  ELSE IF num_tok = 2
  THEN IF e.n # 1 THEN {Made(NoMod, "Invalid end port")}
       ELSE {Made([kind |-> "Port", start_port |-> s.v1, end_port |-> e.v1], nullptr)}
  ELSE {Made([kind |-> "Port", start_port |-> s.v1, end_port |-> s.v1], nullptr)}

\* The modifier PortMod::make builds from the converted start s and end e.
PortRange(num_tok, s, e) ==
  IF s.n # 1 THEN {Made(NoMod, "Invalid start port")}
  ELSE IF num_tok = 2
  THEN IF e.n # 1 THEN {Made(NoMod, "Invalid end port")}
       ELSE IF e.v1 < s.v1 THEN {Made(NoMod, "Malformed Range: end port < start port")}
       ELSE {Made([kind |-> "Port", start_port |-> s.v1, end_port |-> e.v1], nullptr)}
  ELSE {Made([kind |-> "Port", start_port |-> s.v1, end_port |-> s.v1], nullptr)}

\* PortMod::make once the value is tokenized; num_tok is Len(rangeTok).
PortTokens(rangeTok) ==
  IF Len(rangeTok) > 2 THEN {Made(NoMod, "Malformed Range")}
  ELSE IF Tokenizer_at(rangeTok, 0) = NoText
  THEN {IF o = "SIGSEGV" THEN Crashed ELSE Made(NoMod, "Invalid start port")
          : o \in sscanf_null}
  ELSE PortRange(Len(rangeTok), sscanf_d(Tokenizer_at(rangeTok, 0)),
                 IF Len(rangeTok) = 2 THEN sscanf_d(Tokenizer_at(rangeTok, 1))
                 ELSE [n |-> 0, v1 |-> 0])

PortMod_make(value, error) == PortTokens(Tokenizer_Initialize(value, "-"))

PortMod_check(m, req) == m.start_port <= req.port /\ req.port <= m.end_port

\* ---------------------------------------------------------------- IPortMod

IPortScanned(s, error) ==
  IF s.n = 1 THEN {Made([kind |-> "IPort", _port |-> s.v1], error)}
  ELSE {Made(NoMod, "Invalid incoming port")}

IPortMod_make(value, error) == IPortScanned(sscanf_d(value), error)

IPortMod_check(m, req) == req.incoming_port = m._port

\* ---------------------------------------------------------------- SrcIPMod

IsAddr(t) == t # <<>> /\ \A i \in 1..Len(t) : isdigit(t[i])

IpTokens(rangeTok) ==
  IF Len(rangeTok) = 0 THEN [error |-> "no IP address given", addr1 |-> 0, addr2 |-> 0]
  ELSE IF Len(rangeTok) > 2 THEN [error |-> "malformed IP range", addr1 |-> 0, addr2 |-> 0]
  ELSE IF ~IsAddr(rangeTok[1])
  THEN [error |-> "malformed IP address", addr1 |-> 0, addr2 |-> 0]
  ELSE IF Len(rangeTok) = 2 /\ ~IsAddr(rangeTok[2])
  THEN [error |-> "malformed ip address at range end", addr1 |-> 0, addr2 |-> 0]
  ELSE [error |-> nullptr,
        addr1 |-> ScanDigits(rangeTok[1], 1, 0).val,
        addr2 |-> ScanDigits(rangeTok[Len(rangeTok)], 1, 0).val]

\* ExtractIpRange: "ip" or "ip1-ip2"; an address is written here as the
\* decimal of its host-order value.
ExtractIpRange(value) == IpTokens(Tokenizer_Initialize(value, "-"))

SrcIPRange(r) ==
  IF r.error = nullptr
  THEN {Made([kind |-> "SrcIP", start_addr |-> r.addr1, end_addr |-> r.addr2], nullptr)}
  ELSE {Made(NoMod, r.error)}

SrcIPMod_make(value, error) == SrcIPRange(ExtractIpRange(value))

SrcIPMod_check(m, req) == m.start_addr <= req.src_ip /\ req.src_ip <= m.end_addr

\* --------------------------------------------------------------- SchemeMod

\* The well-known scheme strings; the index of one is its position.
WksSchemes == <<Chars("http"), Chars("https"), Chars("ws")>>

\* hdrtoken_tokenize: the index of a well-known string, negative otherwise.
hdrtoken_tokenize(value) ==
  IF \E i \in 1..Len(WksSchemes) : strcasecmp0(WksSchemes[i], value)
  THEN (CHOOSE i \in 1..Len(WksSchemes) : strcasecmp0(WksSchemes[i], value)) - 1
  ELSE 0 - 1

hdrtoken_index_to_wks(i) == WksSchemes[i + 1]

SchemeTokenized(scheme, error) ==
  IF scheme < 0 THEN {Made(NoMod, "Unknown scheme")}
  ELSE {Made([kind |-> "Scheme", _scheme |-> scheme], error)}

SchemeMod_make(value, error) == SchemeTokenized(hdrtoken_tokenize(value), error)

SchemeMod_check(m, req) == req.scheme = m._scheme

\* ------------------------------------------------ TextMod, MultiTextMod

\* TextMod::set: the text is a copy of the whole value.
TextMod_set(value) == value

\* swoc::TextView::ltrim(','): the view without its leading commas.
RECURSIVE ltrim(_, _)
ltrim(src, c) == IF src # <<>> /\ Head(src) = c THEN ltrim(Tail(src), c) ELSE src

\* The length of the prefix of src that holds no c.
RECURSIVE PrefixLen(_, _)
PrefixLen(src, c) ==
  IF src = <<>> \/ Head(src) = c THEN 0 ELSE 1 + PrefixLen(Tail(src), c)

\* MultiTextMod::set: the tokens between commas, empty ones dropped.
\* swoc::TextView::take_prefix_at(','): the token, and the view left after
\* it and its comma.
RECURSIVE MultiTextLoop(_)
TakePrefix(src, n) == <<Take(src, n)>> \o MultiTextLoop(Drop(src, n + 1))

\* The loop of MultiTextMod::set on the view ltrim left.
MultiTextLoop(src) ==
  IF ltrim(src, ",") = <<>> THEN <<>>
  ELSE TakePrefix(ltrim(src, ","), PrefixLen(ltrim(src, ","), ","))

\* MultiTextMod::set: the tokens between commas, empty ones dropped.
MultiTextMod_set(value) == MultiTextLoop(value)

MethodMod_make(value, error) ==
  {Made([kind |-> "Method", text |-> TextMod_set(value)], error)}

MethodMod_check(m, req) ==
  Len(req.method) >= Len(m.text) /\ strncasecmp0(req.method, m.text, Len(m.text))

PrefixMod_make(value, error) ==
  {Made([kind |-> "Prefix", text |-> TextMod_set(ltrim(value, "/"))], error)}

\* PrefixMod_check that ignores the case of the bytes.
PrefixMod_check_ignoresCase(m, req) ==
  Len(req.path) >= Len(m.text) /\ strncasecmp0(req.path, m.text, Len(m.text))

PrefixMod_check(m, req) ==
  Len(req.path) >= Len(m.text) /\ Take(req.path, Len(m.text)) = m.text

SuffixMod_make(value, error) ==
  {Made([kind |-> "Suffix", text_vec |-> MultiTextMod_set(value)], error)}

\* SuffixMod_check that compares the bytes as they are.
SuffixMod_check_caseSensitive(m, req) ==
  \/ Len(m.text_vec) = 1 /\ m.text_vec[1] = <<"*">>
  \/ \E i \in 1..Len(m.text_vec) :
       /\ Len(req.path) >= Len(m.text_vec[i])
       /\ Drop(req.path, Len(req.path) - Len(m.text_vec[i])) = m.text_vec[i]

SuffixMod_check(m, req) ==
  \/ Len(m.text_vec) = 1 /\ m.text_vec[1] = <<"*">>
  \/ \E i \in 1..Len(m.text_vec) :
       /\ Len(req.path) >= Len(m.text_vec[i])
       /\ strncasecmp0(Drop(req.path, Len(req.path) - Len(m.text_vec[i])),
                       m.text_vec[i], Len(m.text_vec[i]))

TagMod_make(value, error) ==
  {Made([kind |-> "Tag", text |-> TextMod_set(value)], error)}

\* strcmp(req->tag, text) == 0; CheckModifiers calls it with a tag only.
TagMod_check(m, req) == req.tag = m.text

\* ------------------------------------------------------------- InternalMod

S_false == Chars("false")

S_true == Chars("true")

InternalFlag(isFalse, isTrue, err) ==
  IF err # nullptr THEN {Made(NoMod, err)}
  ELSE {Made([kind |-> "Internal", flag |-> ~isFalse], err)}

InternalCompared(isFalse, isTrue, error) ==
  InternalFlag(isFalse, isTrue,
               IF isFalse \/ isTrue THEN error ELSE "Value must be true or false")

InternalMod_make(value, error) ==
  InternalCompared(strncasecmp0(S_false, value, 5), strncasecmp0(S_true, value, 4), error)

InternalMod_check(m, req) == req.internal_txn = m.flag

\* ---------------------------------------------------- virtual dispatch

\* Modifier::type(): PortMod and IPortMod do not override the base method.
type(m) ==
  CASE m.kind = "Time" -> "TIME"
    [] m.kind = "SrcIP" -> "SRC_IP"
    [] m.kind = "Scheme" -> "SCHEME"
    [] m.kind = "Method" -> "METHOD"
    [] m.kind = "Prefix" -> "PREFIX"
    [] m.kind = "Suffix" -> "SUFFIX"
    [] m.kind = "Tag" -> "TAG"
    [] m.kind = "Internal" -> "INTERNAL"
    [] OTHER -> "INVALID"

\* Modifier::check through the vtable of the modifier.
check(m, req) ==
  CASE m.kind = "Time" -> TimeMod_check(m, req)
    [] m.kind = "Port" -> PortMod_check(m, req)
    [] m.kind = "IPort" -> IPortMod_check(m, req)
    [] m.kind = "SrcIP" -> SrcIPMod_check(m, req)
    [] m.kind = "Scheme" -> SchemeMod_check(m, req)
    [] m.kind = "Method" -> MethodMod_check(m, req)
    [] m.kind = "Prefix" -> PrefixMod_check(m, req)
    [] m.kind = "Suffix" -> SuffixMod_check(m, req)
    [] m.kind = "Tag" -> TagMod_check(m, req)
    [] m.kind = "Internal" -> InternalMod_check(m, req)

\* --------------------------------------------------------------- print

RECURSIVE NatToChars(_)
NatToChars(n) ==
  IF n < 10 THEN <<DecDigits[n + 1]>>
  ELSE NatToChars(n \div 10) \o <<DecDigits[(n % 10) + 1]>>

\* printf's %d and %ld.
IntToChars(n) == IF n < 0 THEN <<"-">> \o NatToChars(0 - n) ELSE NatToChars(n)

\* Modifier::name() of each class.
name(m) == Chars(m.kind)

RECURSIVE MultiTextMod_print(_, _)
MultiTextMod_print(m, i) ==
  IF i > Len(m.text_vec) THEN <<>>
  ELSE name(m) \o <<"=">> \o m.text_vec[i] \o <<" ">> \o MultiTextMod_print(m, i + 1)

\* Modifier::print through the vtable: what is written to the stream.
print(m) ==
  CASE m.kind \in {"Time"} ->
         name(m) \o <<"=">> \o IntToChars(m.start_time) \o <<"-">>
           \o IntToChars(m.end_time) \o Chars("  ")
    [] m.kind = "Port" ->
         name(m) \o <<"=">> \o IntToChars(m.start_port) \o <<"-">>
           \o IntToChars(m.end_port) \o Chars("  ")
    [] m.kind = "IPort" -> name(m) \o <<"=">> \o IntToChars(m._port) \o Chars("  ")
    [] m.kind = "SrcIP" ->
         name(m) \o <<"=">> \o IntToChars(m.start_addr) \o <<"-">>
           \o IntToChars(m.end_addr) \o Chars("  ")
    [] m.kind = "Scheme" ->
         name(m) \o <<"=">> \o hdrtoken_index_to_wks(m._scheme) \o Chars("  ")
    [] m.kind \in {"Method", "Prefix", "Tag"} ->
         name(m) \o <<"=">> \o m.text \o Chars("  ")
    [] m.kind = "Suffix" -> MultiTextMod_print(m, 1)
    [] m.kind = "Internal" ->
         name(m) \o <<"=">> \o Chars(IF m.flag THEN "true" ELSE "false") \o Chars("  ")

\* ------------------------------------------------------------ ControlBase

\* ControlBase::clear
clear(mods) == <<>>

\* ControlBase::findModOfType: the first entry of the type, or null.
RECURSIVE findModOfType(_, _)
findModOfType(mods, t) ==
  IF mods = <<>> THEN NoMod
  ELSE IF Head(mods) # NoMod /\ t = type(Head(mods)) THEN Head(mods)
  ELSE findModOfType(Tail(mods), t)

\* ControlBase::getSchemeModText
SchemeText(mod) == IF mod # NoMod THEN hdrtoken_index_to_wks(mod._scheme) ELSE NoText

getSchemeModText(mods) == SchemeText(findModOfType(mods, "SCHEME"))

RECURSIVE PrintLoop(_, _)
PrintLoop(mods, i) ==
  IF i > Len(mods) THEN <<>>
  ELSE (IF mods[i] = NoMod THEN Chars("INVALID  ") ELSE print(mods[i]))
         \o PrintLoop(mods, i + 1)

\* ControlBase::Print without the test for an empty set.
ControlBase_Print_noEmptyTest(mods) ==
  <<"\t", "\t", "\t">> \o PrintLoop(mods, 1) \o <<"\n">>

\* ControlBase::Print: what is written to stdout.
ControlBase_Print(mods) ==
  IF 0 >= Len(mods) THEN <<>>
  ELSE <<"\t", "\t", "\t">> \o PrintLoop(mods, 1) \o <<"\n">>

\* One iteration of the loop of CheckModifiers over entry i: "fail" returns
\* false from the function, "next" goes on to the entry after it.
CheckStep(cur_mod, request_data) ==
  IF cur_mod # NoMod /\ ~check(cur_mod, request_data) THEN "fail" ELSE "next"

\* CheckLoop with a loop that returns true at the first entry that passes.
CheckLoop_firstPass(mods, i, request_data) ==
  IF i > Len(mods) THEN TRUE
  ELSE CheckStep(mods[i], request_data) # "fail"

RECURSIVE CheckLoop(_, _, _)
CheckLoop(mods, i, request_data) ==
  IF i > Len(mods) THEN TRUE
  ELSE IF CheckStep(mods[i], request_data) = "fail" THEN FALSE
  ELSE CheckLoop(mods, i + 1, request_data)

\* CheckEntry without the test for a missing header view.
CheckEntry_noHdrTest(mods, request_data) ==
  IF request_data.tag = NoText /\ findModOfType(mods, "TAG") # NoMod THEN "false"
  ELSE "loop"

\* CheckEntry returning true where a Tag modifier meets a request with no tag.
CheckEntry_tagMatches(mods, request_data) ==
  IF ~request_data.hdr THEN "true"
  ELSE IF request_data.tag = NoText /\ findModOfType(mods, "TAG") # NoMod THEN "true"
  ELSE "loop"

\* The two tests CheckModifiers makes before its loop: "true" and "false"
\* return that value, "loop" enters the loop.
CheckEntry(mods, request_data) ==
  IF ~request_data.hdr THEN "true"
  ELSE IF request_data.tag = NoText /\ findModOfType(mods, "TAG") # NoMod THEN "false"
  ELSE "loop"

\* ControlBase::CheckModifiers
CheckEntered(e, mods, request_data) ==
  IF e = "loop" THEN CheckLoop(mods, 1, request_data) ELSE e = "true"

CheckModifiers(mods, request_data) ==
  CheckEntered(CheckEntry(mods, request_data), mods, request_data)

\* errorFormats, indexed by mod_errors.
errorFormats(err) ==
  CASE err = "UNKNOWN" -> "Unknown error parsing modifier"
    [] err = "PARSE_FAILED" -> "Unable to parse modifier"
    [] err = "BAD_MOD" -> "Unknown modifier"
    [] err = "CALLEE_GENERATED" -> "Callee Generated"

MATCHER_MAX_TOKENS == MaxTokens

\* The labels ProcessModifiers recognises.
L_port == Chars("port")

L_iport == Chars("iport")

L_scheme == Chars("scheme")

L_method == Chars("method")

L_prefix == Chars("prefix")

L_suffix == Chars("suffix")

L_src_ip == Chars("src_ip")

L_time == Chars("time")

L_tag == Chars("tag")

L_internal == Chars("internal")

\* The strcasecmp chain of ProcessModifiers: the make the label selects and
\* the ways it can end; an unrecognised label selects none.
MakeFor(label, value, errBuf) ==
  IF strcasecmp0(label, L_port) THEN [known |-> TRUE, outs |-> PortMod_make(value, errBuf)]
  ELSE IF strcasecmp0(label, L_iport) THEN [known |-> TRUE, outs |-> IPortMod_make(value, errBuf)]
  ELSE IF strcasecmp0(label, L_scheme) THEN [known |-> TRUE, outs |-> SchemeMod_make(value, errBuf)]
  ELSE IF strcasecmp0(label, L_method) THEN [known |-> TRUE, outs |-> MethodMod_make(value, errBuf)]
  ELSE IF strcasecmp0(label, L_prefix) THEN [known |-> TRUE, outs |-> PrefixMod_make(value, errBuf)]
  ELSE IF strcasecmp0(label, L_suffix) THEN [known |-> TRUE, outs |-> SuffixMod_make(value, errBuf)]
  ELSE IF strcasecmp0(label, L_src_ip) THEN [known |-> TRUE, outs |-> SrcIPMod_make(value, errBuf)]
  ELSE IF strcasecmp0(label, L_time) THEN [known |-> TRUE, outs |-> TimeMod_make(value, errBuf)]
  ELSE IF strcasecmp0(label, L_tag) THEN [known |-> TRUE, outs |-> TagMod_make(value, errBuf)]
  ELSE IF strcasecmp0(label, L_internal) THEN [known |-> TRUE, outs |-> InternalMod_make(value, errBuf)]
  ELSE [known |-> FALSE, outs |-> {Made(NoMod, errBuf)}]

\* AfterMake without the test of errBuf after the make.
AfterMake_ignoresErrBuf(st, known, o) ==
  LET err1 == IF known THEN st.err ELSE "BAD_MOD"
  IN  IF o.crash THEN [st EXCEPT !.crash = TRUE]
      ELSE [st EXCEPT !.err = err1,
                      !.errBuf = IF err1 = "UNKNOWN" THEN nullptr ELSE o.error,
                      !.mods = IF err1 = "UNKNOWN" THEN Append(@, o.mod) ELSE @,
                      !.n_elts = IF err1 = "UNKNOWN" THEN @ - 1 ELSE @,
                      !.i = @ + 1,
                      !.seen = @ + 1]

\* The tail of one iteration of the loop of ProcessModifiers, after the make
\* of a pair ended as o: the error kind, the push and the element count.
AfterMake(st, known, o) ==
  LET err1 == IF known THEN st.err ELSE "BAD_MOD"
      err2 == IF o.error # nullptr THEN "CALLEE_GENERATED" ELSE err1
  IN  IF o.crash THEN [st EXCEPT !.crash = TRUE]
      ELSE [st EXCEPT !.err = err2,
                      !.errBuf = o.error,
                      !.mods = IF err2 = "UNKNOWN" THEN Append(@, o.mod) ELSE @,
                      !.n_elts = IF err2 = "UNKNOWN" THEN @ - 1 ELSE @,
                      !.i = @ + 1,
                      !.seen = @ + 1]

\* LoopDone without the test of the element count.
LoopDone_ignoresCount(st) ==
  st.crash \/ ~(st.err = "UNKNOWN" /\ st.i < MATCHER_MAX_TOKENS)

\* The condition of the for loop of ProcessModifiers is false, or the process
\* has faulted.
LoopDone(st) ==
  st.crash \/ ~(st.n_elts # 0 /\ st.err = "UNKNOWN" /\ st.i < MATCHER_MAX_TOKENS)

\* The rest of an iteration after the make of the pair at st.i ended one of
\* the ways mf.outs.
PairMade(st, mf) == {AfterMake(st, mf.known, o) : o \in mf.outs}

\* One iteration of the loop of ProcessModifiers at index st.i: the states
\* it can leave. st.seen counts the pairs with a label that were examined.
LoopStep(line, st) ==
  IF line.line[1][st.i + 1] = NoText THEN {[st EXCEPT !.i = @ + 1]}
  ELSE IF line.line[2][st.i + 1] = NoText
  THEN {[st EXCEPT !.err = "PARSE_FAILED", !.seen = @ + 1]}
  ELSE PairMade(st, MakeFor(line.line[1][st.i + 1], line.line[2][st.i + 1], st.errBuf))

\* The loop of ProcessModifiers from iteration st.i on: the states it can
\* end in.
RECURSIVE ProcessLoop(_, _)
ProcessLoop(line, st) ==
  IF LoopDone(st) THEN {st}
  ELSE UNION {ProcessLoop(line, s) : s \in LoopStep(line, st)}

\* ProcessEnd that keeps the modifiers built before the failure.
ProcessEnd_noClear(st) ==
  IF st.crash THEN st
  ELSE IF st.err # "UNKNOWN"
  THEN [st EXCEPT !.errBuf = IF st.err # "CALLEE_GENERATED" THEN errorFormats(st.err) ELSE @]
  ELSE st

\* ProcessEnd that takes every message from errorFormats.
ProcessEnd_generic(st) ==
  IF st.crash THEN st
  ELSE IF st.err # "UNKNOWN"
  THEN [st EXCEPT !.mods = clear(@), !.errBuf = errorFormats(st.err)]
  ELSE st

\* ProcessEnd that reports success whatever the loop found.
ProcessEnd_dropsError(st) ==
  IF st.crash THEN st ELSE [st EXCEPT !.errBuf = nullptr]

\* What ProcessModifiers does once its loop has ended.
ProcessEnd(st) ==
  IF st.crash THEN st
  ELSE IF st.err # "UNKNOWN"
  THEN [st EXCEPT !.mods = clear(@),
                  !.errBuf = IF st.err # "CALLEE_GENERATED" THEN errorFormats(st.err) ELSE @]
  ELSE st

\* ControlBase::ProcessModifiers on an object whose set is mods: the ways
\* the call can end, each with the set left behind and the message returned.
LoopStart(mods, line) ==
  [i |-> 0, n_elts |-> line.num_el, err |-> "UNKNOWN", errBuf |-> nullptr,
   mods |-> mods, crash |-> FALSE, seen |-> 0]

ProcessModifiers(mods, line) ==
  IF 0 >= line.num_el THEN {LoopStart(mods, line)}
  ELSE {ProcessEnd(st) : st \in ProcessLoop(line, LoopStart(clear(mods), line))}

\* ------------------------------------------------------------------ inputs

Pair(l, v) == [label |-> Chars(l), value |-> Chars(v)]

\* A slot whose pair was consumed by the caller, or never filled.
Consumed == [label |-> NoText, value |-> NoText]

\* The slot contents every position of a line ranges over.
CoreSlots ==
  {Consumed, Pair("tag", "a"), Pair("port", "80-443"), Pair("foo", "bar"),
   Pair("port", "443-80")}

\* Further lines, one per remaining label and failure, given by their first slots.
SpecialSlots ==
  {<<Pair("iport", "8080")>>, <<Pair("scheme", "http")>>, <<Pair("method", "GET")>>,
   <<Pair("prefix", "/images")>>, <<Pair("suffix", ".html,.htm")>>,
   <<Pair("src_ip", "1-5")>>, <<Pair("time", "10:00-11:00")>>,
   <<Pair("internal", "true")>>, <<Pair("Internal", "false"), Pair("PORT", "80")>>,
   <<Pair("scheme", "gopher"), Pair("foo", "bar")>>,
   <<[label |-> Chars("method"), value |-> NoText], Pair("foo", "bar")>>,
   <<Pair("tag", "a"), [label |-> Chars("port"), value |-> NoText]>>,
   <<Pair("time", "-"), Pair("tag", "a")>>,
   <<Pair("tag", "b"), Pair("tag", "a")>>,
   <<Pair("prefix", "img"), Pair("method", "get")>>,
   <<[label |-> NoText, value |-> Chars("example.com")], Pair("scheme", "https")>>}

\* The matcher_line of a sequence of slots: line[0] the labels, line[1] the
\* values, num_el the count of the pairs not consumed yet.
LineOf(slots) ==
  LET at(i) == IF i <= Len(slots) THEN slots[i] ELSE Consumed
  IN  [num_el |-> Cardinality({i \in 1..Len(slots) : slots[i].label # NoText}),
       line |-> <<[i \in 1..MATCHER_MAX_TOKENS |-> at(i).label],
                  [i \in 1..MATCHER_MAX_TOKENS |-> at(i).value]>>]

Lines ==
  {LineOf(s) : s \in [1..MATCHER_MAX_TOKENS -> CoreSlots]} \cup {LineOf(s) : s \in SpecialSlots}

\* HttpRequestData as the checks read it; without hdr the header fields are unset.
Request(hdr, tag, port, internal) ==
  [hdr |-> hdr, tag |-> tag, port |-> port, internal_txn |-> internal,
   scheme |-> 0, method |-> Chars("GET"), path |-> Chars("images/a.HTM"),
   src_ip |-> 3, incoming_port |-> 8080, xact_start |-> 86400 + 37800]

Requests ==
  {Request(TRUE, Chars("a"), 80, FALSE), Request(TRUE, NoText, 80, FALSE),
   Request(TRUE, Chars("b"), 80, TRUE), Request(TRUE, Chars("a"), 444, TRUE),
   Request(TRUE, NoText, 444, TRUE),
   Request(FALSE, NoText, 0, FALSE), Request(FALSE, Chars("a"), 0, FALSE)}

Types ==
  {"INVALID", "TIME", "PORT", "IPORT", "SCHEME", "METHOD", "PREFIX", "SUFFIX",
   "SRC_IP", "TAG", "INTERNAL"}

\* ------------------------------------------------- one ControlBase object

EmptyLine == LineOf(<<>>)

Idle == [op |-> "none"]

\* The values a make is called on directly.
MakeValues ==
  {Chars(""), Chars("-"), Chars(","), Chars("/"), Chars("80"), Chars("80-443"),
   Chars("443-80"), Chars("10:00-11:00"), Chars("23:00-01:00"), Chars("true"),
   Chars("FALSE"), Chars("http"), Chars("a"), Chars("1-5-9"),
   Chars("80-80"), Chars("100"), Chars("8080"), Chars("80-90"), Chars("-5"), Chars("80x"),
   Chars("x80"), Chars("truex"), Chars("falsey"), Chars("TRUE"), Chars("yes"), Chars("tru"),
   Chars(".html,.htm"), Chars("*"), Chars("*,.htm"), Chars(",.html,,.htm,"), Chars(".HTML"),
   Chars("10:00"), Chars("10:00-"), Chars("10:00-11:00-12:00"), Chars("ab-cd"),
   Chars("10-11:00"), Chars("25:00-01:00"), Chars("10:60-11:00"), Chars("10:00:60-11:00"),
   Chars("10:00-24:00"), Chars("10:00-11:00:99"), Chars("25:61-10:00"),
   Chars("10:61:61-25:00"), Chars("10:00-11:xx"), Chars("10:00x-11:00"),
   Chars("/images"), Chars("//images"), Chars("images"), Chars("/a/")}

\* The sides HH:MM and HH:MM:SS of the time values: hour, minute, second and
\* the count of the components written.
TimeSides ==
  {<<h, m, 0, 2>> : h \in {0, 9, 23}, m \in {0, 59}}
    \cup {<<h, m, s, 3>> : h \in {0, 9, 23}, m \in {0, 59}, s \in {0, 59}}

\* Two decimal digits.
Fmt2(n) == <<DecDigits[(n \div 10) + 1], DecDigits[(n % 10) + 1]>>

SideText(x) ==
  Fmt2(x[1]) \o <<":">> \o Fmt2(x[2]) \o (IF x[4] = 3 THEN <<":">> \o Fmt2(x[3]) ELSE <<>>)

\* The values "HH:MM[:SS]-HH:MM[:SS]".
TimeValues == {SideText(a) \o <<"-">> \o SideText(b) : a \in TimeSides, b \in TimeSides}

\* The requests a modifier made alone is checked on: one request and its
\* variations in the port of the header, the start time, the path, the
\* inbound port and the internal flag.
CheckRequests ==
  {Request(TRUE, Chars("a"), 80, FALSE)}
    \cup {[Request(TRUE, Chars("a"), 80, FALSE) EXCEPT !.port = q] : q \in {79, 100, 443, 444, 8080}}
    \cup {[Request(TRUE, Chars("a"), 80, FALSE) EXCEPT !.xact_start = d + s] :
            d \in {86400, 259200},
            s \in {0, 58, 59, 60, 3540, 32399, 32400, 32401, 35999, 82800, 86399}}
    \cup {[Request(TRUE, Chars("a"), 80, FALSE) EXCEPT !.path = Chars(x)] :
            x \in {"a/index.html", "a/index.HTM", "a/index.txt", "", "htm", "x*",
                   "images/x.png", "img/x.png", "Images/x.png", "image"}}
    \cup {[Request(TRUE, Chars("a"), 80, FALSE) EXCEPT !.incoming_port = 80, !.port = 8080],
          [Request(TRUE, Chars("a"), 80, FALSE) EXCEPT !.internal_txn = TRUE]}

MakeLabels ==
  {L_port, L_iport, L_scheme, L_method, L_prefix, L_suffix, L_src_ip, L_time, L_tag,
   L_internal}

RWIdle ==
  /\ pub = 0
  /\ store = <<>>
  /\ writer = Idle
  /\ readers = <<>>

Init ==
  /\ _mods = <<>>
  /\ line_info = EmptyLine
  /\ ret = [op |-> "new"]
  /\ mk = Idle
  /\ RWIdle

Running == ret.op # "crash"

CallProcessModifiers ==
  /\ Running
  /\ \E line \in Lines : \E st \in ProcessModifiers(_mods, line) :
       /\ _mods' = st.mods
       /\ line_info' = line
       /\ ret' = [op |-> IF st.crash THEN "crash" ELSE "ProcessModifiers",
                  result |-> st.errBuf, seen |-> st.seen]
  /\ UNCHANGED <<mk, pub, store, writer, readers>>

CallClear ==
  /\ Running
  /\ _mods' = clear(_mods)
  /\ ret' = [op |-> "clear"]
  /\ UNCHANGED <<line_info, mk, pub, store, writer, readers>>

CallCheckModifiers ==
  /\ Running
  /\ \E req \in Requests :
       ret' = [op |-> "CheckModifiers", request |-> req, result |-> CheckModifiers(_mods, req)]
  /\ UNCHANGED <<_mods, line_info, mk, pub, store, writer, readers>>

CallPrint ==
  /\ Running
  /\ ret' = [op |-> "Print", result |-> ControlBase_Print(_mods)]
  /\ UNCHANGED <<_mods, line_info, mk, pub, store, writer, readers>>

CallFindModOfType ==
  /\ Running
  /\ \E t \in Types :
       ret' = [op |-> "findModOfType", t |-> t, result |-> findModOfType(_mods, t)]
  /\ UNCHANGED <<_mods, line_info, mk, pub, store, writer, readers>>

CallGetSchemeModText ==
  /\ Running
  /\ ret' = [op |-> "getSchemeModText", result |-> getSchemeModText(_mods)]
  /\ UNCHANGED <<_mods, line_info, mk, pub, store, writer, readers>>

Next ==
  \/ CallProcessModifiers
  \/ CallClear
  \/ CallCheckModifiers
  \/ CallPrint
  \/ CallFindModOfType
  \/ CallGetSchemeModText

Spec == Init /\ [][Next]_vars

\* ------------------------------------------------- the makes called alone

\* A make about to be called on a value, with a null error slot.
InitMake ==
  /\ _mods = <<>>
  /\ line_info = EmptyLine
  /\ ret = [op |-> "new"]
  /\ mk \in [op : {"call"}, label : MakeLabels, value : MakeValues]
             \cup [op : {"call"}, label : {L_time}, value : TimeValues]
  /\ RWIdle

\* The call of the make ends.
CallMake ==
  /\ mk.op = "call"
  /\ \E o \in MakeFor(mk.label, mk.value, nullptr).outs :
       mk' = [op |-> "made", label |-> mk.label, value |-> mk.value, out |-> o]
  /\ UNCHANGED <<_mods, line_info, ret, pub, store, writer, readers>>

\* check of the modifier the make returned, on a request.
CallCheck ==
  /\ mk.op = "made"
  /\ ~mk.out.crash
  /\ mk.out.mod # NoMod
  /\ \E req \in CheckRequests :
       mk' = [op |-> "checked", label |-> mk.label, value |-> mk.value, out |-> mk.out,
              request |-> req, result |-> check(mk.out.mod, req)]
  /\ UNCHANGED <<_mods, line_info, ret, pub, store, writer, readers>>

NextMake ==
  \/ CallMake
  \/ CallCheck

SpecMake == InitMake /\ [][NextMake]_vars

\* ---------------------------- ProcessModifiers on a line with any count

\* The matcher_line structs with a count of 0..MATCHER_MAX_TOKENS, whatever
\* the number of labels in the slots.
CountedLines ==
  {[l EXCEPT !.num_el = n] : l \in Lines, n \in 0..MATCHER_MAX_TOKENS}

\* The times the body of the for loop of ProcessModifiers was entered: the
\* break for a label without a value leaves before the ++i.
Iterations(st) == IF st.err = "PARSE_FAILED" THEN st.i + 1 ELSE st.i

\* A new ControlBase, its set empty, and the line it is about to be given.
InitCounted ==
  /\ _mods = <<>>
  /\ line_info \in CountedLines
  /\ ret = [op |-> "new"]
  /\ mk = Idle
  /\ RWIdle

\* ControlBase::ProcessModifiers(line_info) on the new object.
CallProcessCounted ==
  /\ ret.op = "new"
  /\ \E st \in ProcessModifiers(_mods, line_info) :
       /\ _mods' = st.mods
       /\ ret' = [op |-> IF st.crash THEN "crash" ELSE "ProcessModifiers",
                  result |-> st.errBuf, seen |-> st.seen, iterations |-> Iterations(st)]
  /\ UNCHANGED <<line_info, mk, pub, store, writer, readers>>

NextCounted == CallProcessCounted

SpecCounted == InitCounted /\ [][NextCounted]_vars

\* ------------------------------------- one writer and the request threads

\* The lines the configuration writer builds sets from.
RWLines ==
  {LineOf(<<Pair("tag", "a"), Pair("port", "80-443")>>),
   LineOf(<<Pair("tag", "a"), Pair("port", "443-80")>>), EmptyLine}

\* The requests of the request threads.
RWRequests == <<Request(TRUE, Chars("a"), 444, FALSE), Request(TRUE, NoText, 80, FALSE)>>

\* The request thread r serves.
RequestOf(r) == RWRequests[((r - 1) % Len(RWRequests)) + 1]

RWTypes == {"TAG"}

\* No ControlBase object in the slot.
Free == [mods |-> <<>>, line |-> EmptyLine, status |-> "free"]

\* A request thread holds the object in slot v.
Held(v) == \E r \in 1..MaxReaders : readers[r] # Idle /\ readers[r].ver = v

InitRW ==
  /\ _mods = <<>>
  /\ line_info = EmptyLine
  /\ ret = [op |-> "new"]
  /\ mk = Idle
  /\ pub = 0
  /\ store = [v \in 1..MaxVersions |-> Free]
  /\ writer = Idle
  /\ readers = [r \in 1..MaxReaders |-> Idle]

\* The writer constructs a ControlBase nothing else refers to, in the first
\* free slot, and enters ProcessModifiers on it: the return for a line
\* without elements, or the clear and the locals of the loop.
WBegin ==
  /\ writer = Idle
  /\ \E v \in 1..MaxVersions : \E line \in RWLines :
       /\ store[v].status = "free"
       /\ \A u \in 1..(v - 1) : store[u].status # "free"
       /\ store' = [store EXCEPT ![v] = [mods |-> clear(store[v].mods), line |-> line,
                                          status |-> "building"]]
       /\ writer' = [op |-> IF 0 >= line.num_el THEN "built" ELSE "loop", ver |-> v,
                     st |-> LoopStart(clear(store[v].mods), line)]
  /\ UNCHANGED <<_mods, line_info, ret, mk, pub, readers>>

\* One iteration of the loop of ProcessModifiers on the object being built.
WStep ==
  /\ writer.op = "loop"
  /\ ~LoopDone(writer.st)
  /\ \E s \in LoopStep(store[writer.ver].line, writer.st) :
       /\ writer' = [writer EXCEPT !.st = s]
       /\ store' = [store EXCEPT ![writer.ver].mods = s.mods]
  /\ UNCHANGED <<_mods, line_info, ret, mk, pub, readers>>

\* The loop has ended and ProcessModifiers returns its message.
WEnd ==
  /\ writer.op = "loop"
  /\ LoopDone(writer.st)
  /\ writer' = [writer EXCEPT !.st = ProcessEnd(writer.st),
                              !.op = IF ProcessEnd(writer.st).crash
                                        \/ ProcessEnd(writer.st).errBuf # nullptr
                                     THEN "failed" ELSE "built"]
  /\ store' = [store EXCEPT ![writer.ver].mods = ProcessEnd(writer.st).mods]
  /\ UNCHANGED <<_mods, line_info, ret, mk, pub, readers>>

\* The writer destroys an object whose line was rejected.
WDiscard ==
  /\ writer.op = "failed"
  /\ store' = [store EXCEPT ![writer.ver] = Free]
  /\ writer' = Idle
  /\ UNCHANGED <<_mods, line_info, ret, mk, pub, readers>>

\* The writer swaps the built object in; the one it replaces stays as it is.
WPublish ==
  /\ writer.op = "built"
  /\ pub' = writer.ver
  /\ store' = [v \in 1..MaxVersions |->
                IF v = writer.ver THEN [store[v] EXCEPT !.status = "published"]
                ELSE IF v = pub THEN [store[v] EXCEPT !.status = "superseded"]
                ELSE store[v]]
  /\ writer' = Idle
  /\ UNCHANGED <<_mods, line_info, ret, mk, readers>>

\* The writer destroys a replaced object no request thread holds any more:
\* the destructor clears its set.
WRetire ==
  /\ \E v \in 1..MaxVersions :
       /\ store[v].status = "superseded"
       /\ ~Held(v)
       /\ store' = [store EXCEPT ![v] = [Free EXCEPT !.mods = clear(store[v].mods)]]
  /\ UNCHANGED <<_mods, line_info, ret, mk, pub, writer, readers>>

\* A request thread takes the published object and enters CheckModifiers.
RBegin(r) ==
  /\ readers[r] = Idle
  /\ pub # 0
  /\ readers' = [readers EXCEPT ![r] = [op |-> "CheckModifiers", pc |-> "entry", ver |-> pub,
                                        arg |-> RequestOf(r), i |-> 0, result |-> FALSE]]
  /\ UNCHANGED <<_mods, line_info, ret, mk, pub, store, writer>>

\* The tests of CheckModifiers before its loop, and the first test of the
\* loop condition.
REntry(r) ==
  /\ readers[r] # Idle
  /\ readers[r].pc = "entry"
  /\ readers' = [readers EXCEPT ![r] =
       IF CheckEntry(store[readers[r].ver].mods, readers[r].arg) = "loop"
       THEN (IF 1 > Len(store[readers[r].ver].mods)
             THEN [@ EXCEPT !.pc = "done", !.i = 1, !.result = TRUE]
             ELSE [@ EXCEPT !.pc = "loop", !.i = 1])
       ELSE [@ EXCEPT !.pc = "done",
                      !.result = (CheckEntry(store[readers[r].ver].mods, readers[r].arg) = "true")]]
  /\ UNCHANGED <<_mods, line_info, ret, mk, pub, store, writer>>

\* One iteration of the loop of CheckModifiers with the test of the loop
\* condition that follows it.
RLoop(r) ==
  /\ readers[r] # Idle
  /\ readers[r].pc = "loop"
  /\ readers' = [readers EXCEPT ![r] =
       IF CheckStep(store[readers[r].ver].mods[readers[r].i], readers[r].arg) = "fail"
       THEN [@ EXCEPT !.pc = "done", !.result = FALSE]
       ELSE IF readers[r].i + 1 > Len(store[readers[r].ver].mods)
       THEN [@ EXCEPT !.pc = "done", !.result = TRUE, !.i = @ + 1]
       ELSE [@ EXCEPT !.i = @ + 1]]
  /\ UNCHANGED <<_mods, line_info, ret, mk, pub, store, writer>>

\* A request thread prints the published object.
RPrint(r) ==
  /\ readers[r] = Idle
  /\ pub # 0
  /\ readers' = [readers EXCEPT ![r] = [op |-> "Print", pc |-> "done", ver |-> pub,
                                        arg |-> nullptr, i |-> 0,
                                        result |-> ControlBase_Print(store[pub].mods)]]
  /\ UNCHANGED <<_mods, line_info, ret, mk, pub, store, writer>>

\* A request thread looks a modifier up in the published object.
RFind(r) ==
  /\ readers[r] = Idle
  /\ pub # 0
  /\ \E t \in RWTypes :
       readers' = [readers EXCEPT ![r] = [op |-> "findModOfType", pc |-> "done", ver |-> pub,
                                          arg |-> t, i |-> 0,
                                          result |-> findModOfType(store[pub].mods, t)]]
  /\ UNCHANGED <<_mods, line_info, ret, mk, pub, store, writer>>

\* The request thread is done with the object.
REnd(r) ==
  /\ readers[r] # Idle
  /\ readers[r].pc = "done"
  /\ readers' = [readers EXCEPT ![r] = Idle]
  /\ UNCHANGED <<_mods, line_info, ret, mk, pub, store, writer>>

NextRW ==
  \/ WBegin
  \/ WStep
  \/ WEnd
  \/ WDiscard
  \/ WPublish
  \/ WRetire
  \/ \E r \in 1..MaxReaders : RBegin(r)
  \/ \E r \in 1..MaxReaders : REntry(r)
  \/ \E r \in 1..MaxReaders : RLoop(r)
  \/ \E r \in 1..MaxReaders : RPrint(r)
  \/ \E r \in 1..MaxReaders : RFind(r)
  \/ \E r \in 1..MaxReaders : REnd(r)

SpecRW == InitRW /\ [][NextRW]_vars

\* ------------------------------------------------ reference definitions

\* The requests and modifiers as the claims speak of them.
HasTagMod(mods) == \E i \in 1..Len(mods) : mods[i] # NoMod /\ mods[i].kind = "Tag"

AllPass(mods, req) == \A i \in 1..Len(mods) : mods[i] = NoMod \/ check(mods[i], req)

RefCheck(mods, req) ==
  IF ~req.hdr THEN TRUE
  ELSE IF req.tag = NoText /\ HasTagMod(mods) THEN FALSE
  ELSE AllPass(mods, req)

\* The ways the make of the variant named by a label can end on a value; no
\* way at all for a label outside the ten names.
RefMake(label, value) ==
  CASE Lowered(label) = L_port -> PortMod_make(value, nullptr)
    [] Lowered(label) = L_iport -> IPortMod_make(value, nullptr)
    [] Lowered(label) = L_scheme -> SchemeMod_make(value, nullptr)
    [] Lowered(label) = L_method -> MethodMod_make(value, nullptr)
    [] Lowered(label) = L_prefix -> PrefixMod_make(value, nullptr)
    [] Lowered(label) = L_suffix -> SuffixMod_make(value, nullptr)
    [] Lowered(label) = L_src_ip -> SrcIPMod_make(value, nullptr)
    [] Lowered(label) = L_time -> TimeMod_make(value, nullptr)
    [] Lowered(label) = L_tag -> TagMod_make(value, nullptr)
    [] Lowered(label) = L_internal -> InternalMod_make(value, nullptr)
    [] OTHER -> {}

\* The class a label selects.
RefKind(label) ==
  CASE Lowered(label) = L_port -> "Port"
    [] Lowered(label) = L_iport -> "IPort"
    [] Lowered(label) = L_scheme -> "Scheme"
    [] Lowered(label) = L_method -> "Method"
    [] Lowered(label) = L_prefix -> "Prefix"
    [] Lowered(label) = L_suffix -> "Suffix"
    [] Lowered(label) = L_src_ip -> "SrcIP"
    [] Lowered(label) = L_time -> "Time"
    [] Lowered(label) = L_tag -> "Tag"
    [] Lowered(label) = L_internal -> "Internal"
    [] OTHER -> "none"

LabelAt(line, i) == line.line[1][i]

ValueAt(line, i) == line.line[2][i]

\* The slots of a line that hold an unconsumed pair, in index order.
Labelled(line) == {i \in 1..MATCHER_MAX_TOKENS : LabelAt(line, i) # NoText}

InOrder(S) ==
  [k \in 1..Cardinality(S) |-> CHOOSE i \in S : Cardinality({j \in S : j < i}) = k - 1]

\* A pair fails: no value, an unknown label, or a make that reports an error.
PairFails(line, i) ==
  \/ ValueAt(line, i) = NoText
  \/ RefMake(LabelAt(line, i), ValueAt(line, i)) = {}
  \/ \E o \in RefMake(LabelAt(line, i), ValueAt(line, i)) : ~o.crash /\ o.error # nullptr

\* A pair is valid: its make ends in one way, with a modifier and no error.
PairValid(line, i) ==
  /\ ValueAt(line, i) # NoText
  /\ RefMake(LabelAt(line, i), ValueAt(line, i)) # {}
  /\ \A o \in RefMake(LabelAt(line, i), ValueAt(line, i)) :
       ~o.crash /\ o.error = nullptr /\ o.mod # NoMod

SomePairFails(line) == \E i \in Labelled(line) : PairFails(line, i)

AllPairsValid(line) == \A i \in Labelled(line) : PairValid(line, i)

FirstFailing(line) ==
  CHOOSE i \in Labelled(line) :
    PairFails(line, i) /\ \A j \in Labelled(line) : j < i => ~PairFails(line, j)

\* The message the claims name for a failing pair.
ErrorsOf(line, i) ==
  IF ValueAt(line, i) = NoText THEN {"Unable to parse modifier"}
  ELSE IF RefMake(LabelAt(line, i), ValueAt(line, i)) = {} THEN {"Unknown modifier"}
  ELSE {o.error : o \in {x \in RefMake(LabelAt(line, i), ValueAt(line, i)) :
                           ~x.crash /\ x.error # nullptr}}

\* The modifiers of the pairs of a line whose pairs are all valid.
BuiltFrom(line) ==
  [k \in 1..Cardinality(Labelled(line)) |->
     (CHOOSE o \in RefMake(LabelAt(line, InOrder(Labelled(line))[k]),
                           ValueAt(line, InOrder(Labelled(line))[k])) : TRUE).mod]

Returned == ret.op = "ProcessModifiers"

Checked == ret.op = "CheckModifiers"

\* ----------------------------------------------------------------- claims

C3_AllOrNothing ==
  Returned =>
    /\ (ret.result # nullptr) <=> SomePairFails(line_info)
    /\ ret.result # nullptr => _mods = <<>>

C3_Witness ==
  /\ Returned
  /\ ret.result # nullptr
  /\ ret.seen >= 2
  /\ PairValid(line_info, 1)
  /\ _mods = <<>>

\* C4: the message ProcessModifiers returns is that of the first failing pair
\* in index order, and no pair after it is examined: "Unable to parse
\* modifier" for a label without a value, "Unknown modifier" for a label
\* outside the ten names, and for a recognised label the message its make
\* produced.
C4_FirstError ==
  (Returned /\ SomePairFails(line_info)) =>
    /\ ret.result \in ErrorsOf(line_info, FirstFailing(line_info))
    /\ ret.seen = Cardinality({j \in Labelled(line_info) : j <= FirstFailing(line_info)})

C4_Witness ==
  /\ Returned
  /\ Cardinality({i \in Labelled(line_info) : PairFails(line_info, i)}) >= 2
  /\ ret.result = "Malformed Range: end port < start port"
  /\ ret.seen < Cardinality(Labelled(line_info))

\* C5 as stated: when every unconsumed pair of the line is valid,
\* ProcessModifiers returns null and the set is exactly the modifiers built
\* from the pairs with a label, one per pair, in index order, each of the
\* class its label selects case-insensitively.
C5_BuildsTheLine ==
  (Returned /\ AllPairsValid(line_info)) =>
    /\ ret.result = nullptr
    /\ _mods = BuiltFrom(line_info)
    /\ \A k \in 1..Len(_mods) :
         _mods[k].kind = RefKind(LabelAt(line_info, InOrder(Labelled(line_info))[k]))

\* C6 as stated: after a ProcessModifiers call the set holds exactly the
\* modifiers of the most recent line, and is empty when that line has no
\* elements or failed.
C6_RebuiltOnReparse ==
  Returned =>
    _mods = IF line_info.num_el > 0 /\ AllPairsValid(line_info)
            THEN BuiltFrom(line_info) ELSE <<>>

\* C7 as stated: a make called with a null error slot ends with a modifier
\* and no error, or with no modifier and an error, for every variant and raw
\* value.
C7_ModifierOrError ==
  mk.op = "made" =>
    /\ ~mk.out.crash
    /\ (mk.out.mod # NoMod) <=> (mk.out.error = nullptr)

\* A modifier is fully constructed: the fields of its class hold values.
Constructed(m) ==
  CASE m.kind = "Time" -> m.start_time \in 0..86399 /\ m.end_time \in 0..86399
    [] m.kind = "Port" -> m.start_port \in Int /\ m.end_port \in Int /\ m.start_port <= m.end_port
    [] m.kind = "IPort" -> m._port \in Int
    [] m.kind = "SrcIP" -> m.start_addr \in Nat /\ m.end_addr \in Nat
    [] m.kind = "Scheme" -> m._scheme \in 0..(Len(WksSchemes) - 1)
    [] m.kind \in {"Method", "Prefix", "Tag"} -> m.text \in Seq(STRING) /\ m.text # NoText
    [] m.kind = "Suffix" -> \A i \in 1..Len(m.text_vec) : m.text_vec[i] # <<>>
    [] m.kind = "Internal" -> m.flag \in BOOLEAN
    [] OTHER -> FALSE

\* The pairs of the lines.
AllPairs ==
  {<<LabelAt(l, i), ValueAt(l, i)>> : l \in Lines, i \in 1..MATCHER_MAX_TOKENS}

\* A make returned the modifier and reported no error.
MadeWithoutError(m) ==
  \E p \in AllPairs :
    p[1] # NoText /\ p[2] # NoText /\ Made(m, nullptr) \in RefMake(p[1], p[2])

\* C8: in every state reached through ProcessModifiers and clear every entry
\* of the set is a non-null, fully constructed modifier that a make returned
\* without an error.
C8_OnlyConstructedModifiers ==
  \A i \in 1..Len(_mods) :
    _mods[i] # NoMod /\ Constructed(_mods[i]) /\ MadeWithoutError(_mods[i])

C8_Witness ==
  /\ Returned
  /\ ret.result = nullptr
  /\ Len(_mods) >= 2
  /\ _mods[1].kind # _mods[2].kind

Orderings(n) == {p \in [1..n -> 1..n] : \A i, j \in 1..n : p[i] = p[j] => i = j}

Permuted(s, p) == [i \in 1..Len(s) |-> s[p[i]]]

\* C9: CheckModifiers returns the same boolean on every two sets that hold
\* the same modifiers in a different order.
C9_OrderIrrelevant ==
  Checked =>
    \A p \in Orderings(Len(_mods)) :
      CheckModifiers(Permuted(_mods, p), ret.request) = ret.result

C9_Witness ==
  /\ Checked
  /\ Len(_mods) >= 2
  /\ _mods[1] # _mods[2]
  /\ ret.request.hdr
  /\ check(_mods[1], ret.request)
  /\ ~check(_mods[2], ret.request)
  /\ ~ret.result

\* What a read of a complete set returns.
ReadAlone(rd, mods) ==
  CASE rd.op = "CheckModifiers" -> RefCheck(mods, rd.arg)
    [] rd.op = "Print" -> ControlBase_Print(mods)
    [] rd.op = "findModOfType" -> findModOfType(mods, rd.arg)

\* The complete set of each line of the writer whose pairs are all valid.
CompleteSets ==
  [l \in {x \in RWLines : AllPairsValid(x)} |-> BuiltFrom(l)] @@ <<>>

\* C10: with one writer that builds, publishes and retires, and with
\* ProcessModifiers and clear run only on an object no request thread holds,
\* the object a request thread holds is a published or replaced one whose set
\* is, at every step of the thread, the complete set built from its line
\* (never a cleared or a partly built one), the request of a CheckModifiers
\* is the one it was called with, and each CheckModifiers, Print and
\* findModOfType ends with what it returns alone on that complete set.
C10_ReadersSeeCompleteSets ==
  \A r \in DOMAIN readers :
    readers[r] # Idle =>
      /\ store[readers[r].ver].status \in {"published", "superseded"}
      /\ store[readers[r].ver].line \in DOMAIN CompleteSets
      /\ store[readers[r].ver].mods = CompleteSets[store[readers[r].ver].line]
      /\ readers[r].op = "CheckModifiers" => readers[r].arg = RequestOf(r)
      /\ readers[r].pc = "done" =>
           readers[r].result = ReadAlone(readers[r], CompleteSets[store[readers[r].ver].line])

\* A CheckModifiers that began before the writer published the next object
\* ends, after both iterations of its loop, on the replaced object, while
\* another request thread is inside CheckModifiers on the published one.
C10_Witness ==
  \E r, q \in DOMAIN readers :
    /\ readers[r] # Idle
    /\ readers[r].op = "CheckModifiers"
    /\ readers[r].pc = "done"
    /\ readers[r].i = 2
    /\ ~readers[r].result
    /\ store[readers[r].ver].status = "superseded"
    /\ readers[q] # Idle
    /\ readers[q].op = "CheckModifiers"
    /\ readers[q].pc # "done"
    /\ readers[q].ver = pub

Printed == ret.op = "Print"

\* The pairs of a line that hold a label, in index order.
PairsOf(line) ==
  [k \in 1..Cardinality(Labelled(line)) |->
     <<LabelAt(line, InOrder(Labelled(line))[k]), ValueAt(line, InOrder(Labelled(line))[k])>>]

RECURSIVE Concat(_)
Concat(ss) == IF ss = <<>> THEN <<>> ELSE Head(ss) \o Concat(Tail(ss))

\* The words of an output: the runs between blanks, tabs and newlines.
Words(s) ==
  Tokenizer_Initialize([i \in 1..Len(s) |-> IF s[i] \in {"\t", "\n"} THEN " " ELSE s[i]], " ")

\* The name=value token of a pair under the name of the class of its label.
NameValue(p) == Chars(RefKind(p[1])) \o <<"=">> \o p[2]

PrintedAs ==
  {<<"tag", "a", "Tag=a  ">>, <<"tag", "b", "Tag=b  ">>,
   <<"port", "80-443", "Port=80-443  ">>, <<"PORT", "80", "Port=80-80  ">>,
   <<"iport", "8080", "IPort=8080  ">>, <<"scheme", "http", "Scheme=http  ">>,
   <<"scheme", "https", "Scheme=https  ">>, <<"method", "GET", "Method=GET  ">>,
   <<"method", "get", "Method=get  ">>, <<"prefix", "/images", "Prefix=images  ">>,
   <<"prefix", "img", "Prefix=img  ">>, <<"suffix", ".html,.htm", "Suffix=.html Suffix=.htm ">>,
   <<"src_ip", "1-5", "SrcIP=1-5  ">>, <<"time", "10:00-11:00", "Time=36000-39600  ">>,
   <<"internal", "true", "Internal=true  ">>, <<"Internal", "false", "Internal=false  ">>}

PrintedToken(p) ==
  Chars((CHOOSE x \in PrintedAs : Chars(x[1]) = p[1] /\ Chars(x[2]) = p[2])[3])

TagOf(kind) ==
  CASE kind = "Time" -> "TIME"
    [] kind = "Port" -> "PORT"
    [] kind = "IPort" -> "IPORT"
    [] kind = "Scheme" -> "SCHEME"
    [] kind = "Method" -> "METHOD"
    [] kind = "Prefix" -> "PREFIX"
    [] kind = "Suffix" -> "SUFFIX"
    [] kind = "SrcIP" -> "SRC_IP"
    [] kind = "Tag" -> "TAG"
    [] kind = "Internal" -> "INTERNAL"
    [] OTHER -> "INVALID"

\* A make has returned a modifier.
HasMade == mk.op \in {"made", "checked"} /\ ~mk.out.crash /\ mk.out.mod # NoMod

\* C12 as stated: type() of the modifier a make returns is the tag of the
\* variant of that make, and never INVALID.
C12_TypeIsOwnTag ==
  HasMade =>
    /\ type(mk.out.mod) = TagOf(RefKind(mk.label))
    /\ type(mk.out.mod) # "INVALID"

\* The indices of the modifiers of the class of tag t.
OfTag(mods, t) == {i \in 1..Len(mods) : mods[i] # NoMod /\ TagOf(mods[i].kind) = t}

FirstOfTag(mods, S) == IF S = {} THEN NoMod ELSE mods[CHOOSE i \in S : \A j \in S : i <= j]

\* C13 as stated: findModOfType(T) returns the modifier of tag T with the
\* lowest index, none iff the set holds no modifier of tag T, and
\* getSchemeModText the well-known text of the first Scheme modifier, null
\* when there is none.
C13_FindFirstOfTag ==
  /\ ret.op = "findModOfType" => ret.result = FirstOfTag(_mods, OfTag(_mods, ret.t))
  /\ ret.op = "getSchemeModText" =>
       ret.result = IF OfTag(_mods, "SCHEME") = {} THEN NoText
                    ELSE WksSchemes[FirstOfTag(_mods, OfTag(_mods, "SCHEME"))._scheme + 1]

\* ----------------------------------------------------------- Time claims

MadeTime == mk.op \in {"made", "checked"} /\ mk.label = L_time

SideSeconds(x) == (x[1] * 60 + x[2]) * 60 + x[3]

\* The two sides each time value was written from.
SidesOf ==
  [v \in TimeValues |->
     CHOOSE ab \in TimeSides \X TimeSides : SideText(ab[1]) \o <<"-">> \o SideText(ab[2]) = v]
    @@ <<>>

\* Seconds since midnight of the start of the transaction, local time.
LocalSeconds(req) == req.xact_start % 86400

TimeModOf(ab) ==
  [kind |-> "Time", start_time |-> SideSeconds(ab[1]), end_time |-> SideSeconds(ab[2])]

\* C14: on "HH:MM[:SS]-HH:MM[:SS]" with hours in 0..23 and minutes and
\* seconds in 0..59 TimeMod::make returns a modifier with start and end
\* (HH*60+MM)*60+SS of each side, SS = 0 when omitted, and its check is TRUE
\* iff start <= t <= end for the local seconds since midnight t of the
\* transaction start, both ends included.
C14_TimeRange ==
  (MadeTime /\ mk.value \in TimeValues) =>
    /\ mk.out = Made(TimeModOf(SidesOf[mk.value]), nullptr)
    /\ mk.op = "checked" =>
         mk.result = (SideSeconds(SidesOf[mk.value][1]) <= LocalSeconds(mk.request)
                        /\ LocalSeconds(mk.request) <= SideSeconds(SidesOf[mk.value][2]))

C14_Witness ==
  /\ MadeTime
  /\ mk.op = "checked"
  /\ mk.value = Chars("09:00-09:59:59")
  /\ LocalSeconds(mk.request) = 35999
  /\ mk.request.xact_start > 86400 + 86400
  /\ mk.result

AllDigits(s) == s # <<>> /\ \A i \in 1..Len(s) : s[i] \in {DecDigits[k] : k \in 1..10}

RECURSIVE SumLen(_)
SumLen(ss) == IF ss = <<>> THEN 0 ELSE Len(Head(ss)) + SumLen(Tail(ss))

RECURSIVE Decimal(_, _)
Decimal(s, acc) ==
  IF s = <<>> THEN acc
  ELSE Decimal(Tail(s), acc * 10 + ((CHOOSE k \in 1..10 : DecDigits[k] = Head(s)) - 1))

\* The components of a side that is H:M or H:M:S in decimal digits, and
\* the empty sequence for any other side.
Components(side, parts) ==
  IF Len(parts) \in {2, 3} /\ (\A i \in 1..Len(parts) : AllDigits(parts[i]))
       /\ Len(side) = SumLen(parts) + Len(parts) - 1
  THEN [i \in 1..Len(parts) |-> Decimal(parts[i], 0)]
  ELSE <<>>

\* The message for a side, hour before minute before second.
SideError(c) ==
  IF c = <<>> THEN "Malformed time specified"
  ELSE IF c[1] > 23 THEN "Illegal hour specification"
  ELSE IF c[2] > 59 THEN "Illegal minute specification"
  ELSE IF Len(c) = 3 /\ c[3] > 59 THEN "Illegal second specification"
  ELSE nullptr

SideErrorOf(side) == SideError(Components(side, Tokenizer_Initialize(side, ":")))

\* The message for a value, the start side before the end side.
TimeErrorOf(sides) ==
  IF Len(sides) < 2 THEN "End time not specified"
  ELSE IF Len(sides) > 2 THEN "Malformed time range"
  ELSE IF SideErrorOf(sides[1]) # nullptr THEN SideErrorOf(sides[1])
  ELSE SideErrorOf(sides[2])

\* C15 as stated: TimeMod::make builds no modifier and reports "End time not
\* specified" for a value without an end side, "Malformed time range" for
\* more than two sides, "Malformed time specified" for a side that is not
\* H:M[:S] in digits, and the Illegal hour, minute or second message for a
\* component out of range, the first violation in the order start side, end
\* side and hour, minute, second.
C15_TimeErrors ==
  (MadeTime /\ TimeErrorOf(Tokenizer_Initialize(mk.value, "-")) # nullptr) =>
    mk.out = Made(NoMod, TimeErrorOf(Tokenizer_Initialize(mk.value, "-")))

\* C16: TimeMod::make accepts a range whose start is later than its end as
\* it is written, and the check of such a modifier is FALSE for every start
\* time of a request.
C16_ReversedNeverMatches ==
  /\ (MadeTime /\ mk.value \in TimeValues) =>
       (SideSeconds(SidesOf[mk.value][1]) > SideSeconds(SidesOf[mk.value][2]) =>
          mk.out = Made(TimeModOf(SidesOf[mk.value]), nullptr))
  /\ (MadeTime /\ mk.op = "checked") =>
       (mk.out.mod.start_time > mk.out.mod.end_time => ~mk.result)
  /\ (MadeTime /\ mk.value = Chars("23:00-01:00")) =>
       mk.out = Made([kind |-> "Time", start_time |-> 82800, end_time |-> 3600], nullptr)

C16_Witness ==
  /\ MadeTime
  /\ mk.op = "checked"
  /\ mk.value = Chars("23:00-00:59")
  /\ mk.out.mod.start_time = 82800
  /\ mk.out.mod.end_time = 3540
  /\ LocalSeconds(mk.request) = 82800
  /\ ~mk.result

\* ----------------------------------------------------------- Port claims

MadePort == mk.op \in {"made", "checked"} /\ mk.label = L_port

\* The values "N" and "N-M" and the range each is written for.
PortCases ==
  {<<"80", 80, 80>>, <<"100", 100, 100>>, <<"8080", 8080, 8080>>, <<"80-443", 80, 443>>,
   <<"80-80", 80, 80>>, <<"80-90", 80, 90>>, <<"443-80", 443, 80>>}

PortCaseOf(value) == {x \in PortCases : Chars(x[1]) = value}

RECURSIVE Contains(_, _)
Contains(s, sub) ==
  IF Len(s) < Len(sub) THEN FALSE
  ELSE IF Take(s, Len(sub)) = sub THEN TRUE
  ELSE Contains(Tail(s), sub)

\* What the claim says of a value written for the range x[2]..x[3].
PortAsWritten(x) ==
  IF x[3] >= x[2]
  THEN /\ mk.out = Made([kind |-> "Port", start_port |-> x[2], end_port |-> x[3]], nullptr)
       /\ mk.op = "checked" => mk.result = (x[2] <= mk.request.port /\ mk.request.port <= x[3])
  ELSE /\ mk.out.mod = NoMod
       /\ ~mk.out.crash
       /\ mk.out.error # nullptr
       /\ Contains(Chars(mk.out.error), Chars("end port < start port"))

\* C17: PortMod::make builds [N,N] from "N" and [N,M] from "N-M" with
\* M >= N, and from "N-M" with M < N no modifier and an error that contains
\* "end port < start port"; check is TRUE iff start <= p <= end for the
\* port p of the header of the request.
C17_PortRange == MadePort => \A x \in PortCaseOf(mk.value) : PortAsWritten(x)

C17_Witness ==
  /\ MadePort
  /\ mk.op = "checked"
  /\ mk.value = Chars("80-443")
  /\ mk.request.port = 443
  /\ mk.request.incoming_port # 443
  /\ mk.result

\* --------------------------------------------------------- IPort claims

MadeIPort == mk.op \in {"made", "checked"} /\ mk.label = L_iport

\* C18 as stated: IPortMod::make builds a modifier only from a value that
\* is one unsigned integer, with that port, and reports "Invalid incoming
\* port" for every other value; check is TRUE iff the inbound port of the
\* request equals the port, whatever the port of the header is.
C18_SingleUnsigned ==
  MadeIPort =>
    /\ mk.out = IF AllDigits(mk.value)
                THEN Made([kind |-> "IPort", _port |-> Decimal(mk.value, 0)], nullptr)
                ELSE Made(NoMod, "Invalid incoming port")
    /\ mk.op = "checked" => mk.result = (mk.request.incoming_port = mk.out.mod._port)

\* ------------------------------------------------------ Internal claims

MadeInternal == mk.op \in {"made", "checked"} /\ mk.label = L_internal

\* C19 as stated: InternalMod::make builds a modifier iff the value is
\* "true" or "false" in any case, with the flag of that word, and reports
\* "Value must be true or false" for every other value; check is TRUE iff
\* the internal flag of the request equals the flag.
C19_TrueOrFalse ==
  MadeInternal =>
    /\ mk.out = IF Lowered(mk.value) = S_true THEN Made([kind |-> "Internal", flag |-> TRUE], nullptr)
                ELSE IF Lowered(mk.value) = S_false
                THEN Made([kind |-> "Internal", flag |-> FALSE], nullptr)
                ELSE Made(NoMod, "Value must be true or false")
    /\ mk.op = "checked" => mk.result = (mk.request.internal_txn = mk.out.mod.flag)

\* -------------------------------------------------------- Suffix claims

MadeSuffix == mk.op \in {"made", "checked"} /\ mk.label = L_suffix

\* The last n bytes of a path.
LastBytes(path, n) == [i \in 1..n |-> path[Len(path) - n + i]]

\* Some token is a suffix of the path when case is ignored.
SomeSuffix(toks, path) ==
  \E i \in 1..Len(toks) :
    Len(toks[i]) <= Len(path) /\ Lowered(LastBytes(path, Len(toks[i]))) = Lowered(toks[i])

\* C20: a Suffix modifier stores the non-empty tokens between the commas of
\* its value, in order; its check is TRUE for every path when the list is
\* the one token "*", and otherwise TRUE iff some stored token is no longer
\* than the path and equals its last bytes when case is ignored.
C20_SuffixTokens ==
  MadeSuffix =>
    /\ mk.out = Made([kind |-> "Suffix", text_vec |-> Tokenizer_Initialize(mk.value, ",")], nullptr)
    /\ \A i \in 1..Len(mk.out.mod.text_vec) : mk.out.mod.text_vec[i] # <<>>
    /\ mk.op = "checked" =>
         mk.result = IF mk.out.mod.text_vec = <<Chars("*")>> THEN TRUE
                     ELSE SomeSuffix(mk.out.mod.text_vec, mk.request.path)

C20_Witness ==
  /\ MadeSuffix
  /\ mk.op = "checked"
  /\ mk.value = Chars(",.html,,.htm,")
  /\ mk.out.mod.text_vec = <<Chars(".html"), Chars(".htm")>>
  /\ mk.request.path = Chars("a/index.HTM")
  /\ mk.result

\* -------------------------------------------------------- Prefix claims

MadePrefix == mk.op \in {"made", "checked"} /\ mk.label = L_prefix

\* The number of '/' bytes a value starts with.
LeadingSlashes(value) ==
  IF \A i \in 1..Len(value) : value[i] = "/" THEN Len(value)
  ELSE (CHOOSE k \in 1..Len(value) :
          value[k] # "/" /\ \A i \in 1..(k - 1) : value[i] = "/") - 1

\* The bytes of a value after its leading '/' bytes.
WithoutLeadingSlashes(value) ==
  [i \in 1..(Len(value) - LeadingSlashes(value)) |-> value[LeadingSlashes(value) + i]]

\* The first bytes of the path are the bytes of the text, case included.
StartsWith(path, text) ==
  Len(path) >= Len(text) /\ \A i \in 1..Len(text) : path[i] = text[i]

\* C21: PrefixMod::make never fails and stores the value with every leading
\* '/' removed; check is TRUE iff the request path is at least as long as the
\* stored text and its first bytes equal the stored text byte for byte, case
\* included.
C21_PrefixMatch ==
  MadePrefix =>
    /\ ~mk.out.crash
    /\ mk.out.error = nullptr
    /\ mk.out.mod # NoMod
    /\ mk.out.mod.kind = "Prefix"
    /\ mk.out.mod.text = WithoutLeadingSlashes(mk.value)
    /\ mk.op = "checked" => mk.result = StartsWith(mk.request.path, mk.out.mod.text)

\* "/images" is stored as "images" and matches the path images/x.png.
C21_Witness ==
  /\ mk.op = "checked"
  /\ mk.label = L_prefix
  /\ mk.value = Chars("/images")
  /\ mk.out.mod.text = Chars("images")
  /\ mk.request.path = Chars("images/x.png")
  /\ mk.result

\* ------------------------------------------------- element count claims

\* A processor that ignores the element count: it empties the set and scans
\* the slots 1..MATCHER_MAX_TOKENS in order, and ends with the set and the
\* message, or faulted.
RECURSIVE ScanFrom(_, _, _)
ScanEnd(mods, error, crash) == [mods |-> mods, error |-> error, crash |-> crash]

ScanMade(line, k, mods, known, o) ==
  IF o.crash THEN {ScanEnd(mods, nullptr, TRUE)}
  ELSE IF o.error # nullptr THEN {ScanEnd(<<>>, o.error, FALSE)}
  ELSE IF ~known THEN {ScanEnd(<<>>, errorFormats("BAD_MOD"), FALSE)}
  ELSE ScanFrom(line, k + 1, Append(mods, o.mod))

ScanFrom(line, k, mods) ==
  IF k > MATCHER_MAX_TOKENS THEN {ScanEnd(mods, nullptr, FALSE)}
  ELSE IF line.line[1][k] = NoText THEN ScanFrom(line, k + 1, mods)
  ELSE IF line.line[2][k] = NoText THEN {ScanEnd(<<>>, errorFormats("PARSE_FAILED"), FALSE)}
  ELSE UNION {ScanMade(line, k, mods, MakeFor(line.line[1][k], line.line[2][k], nullptr).known, o) :
                o \in MakeFor(line.line[1][k], line.line[2][k], nullptr).outs}

ScanAll(line) == ScanFrom(line, 1, <<>>)

\* C22 as stated: for every parsed line, the set and the message that
\* ProcessModifiers leaves equal those of a processor that ignores the
\* element count and scans all MATCHER_MAX_TOKENS slots.
C22_CountIsOptimisation ==
  Returned => ScanEnd(_mods, ret.result, FALSE) \in ScanAll(line_info)

\* C23: after a ProcessModifiers call that starts from an empty set, the set
\* holds at most num_el modifiers; when the call succeeds it holds the minimum
\* of num_el and the number of non-null labels among the MATCHER_MAX_TOKENS
\* slots; and the body of the loop was entered at most MATCHER_MAX_TOKENS
\* times.
C23_AtMostNumEl ==
  Returned =>
    /\ Len(_mods) <= line_info.num_el
    /\ ret.result = nullptr =>
         Len(_mods) = Min(line_info.num_el, Cardinality(Labelled(line_info)))
    /\ ret.iterations <= MATCHER_MAX_TOKENS

\* A line with more labels than its count says: the loop stops once the
\* count is used up.
C23_Witness ==
  /\ Returned
  /\ ret.result = nullptr
  /\ line_info.num_el >= 1
  /\ line_info.num_el < Cardinality(Labelled(line_info))
  /\ Len(_mods) = line_info.num_el
  /\ ret.iterations < MATCHER_MAX_TOKENS

\* --------------------------------------------------- repeated label claims

\* The pairs of slots of a line that carry the same label.
Duplicates(line) ==
  {d \in Labelled(line) \X Labelled(line) :
     d[1] < d[2] /\ Lowered(LabelAt(line, d[1])) = Lowered(LabelAt(line, d[2]))}

\* C24 as stated: when a line carries the same label twice with valid values,
\* ProcessModifiers keeps both modifiers in the set, in line order;
\* CheckModifiers is TRUE only when both pass; and findModOfType of the type
\* of the label returns the earlier one.
C24_NoDeduplication ==
  (Returned /\ AllPairsValid(line_info) /\ Duplicates(line_info) # {}) =>
    /\ ret.result = nullptr
    /\ _mods = BuiltFrom(line_info)
    /\ \A req \in Requests :
         (req.hdr /\ CheckModifiers(_mods, req)) =>
           \A k \in 1..Len(_mods) : check(_mods[k], req)
    /\ \A d \in Duplicates(line_info) :
         /\ findModOfType(_mods, TagOf(RefKind(LabelAt(line_info, d[1])))) # NoMod
         /\ findModOfType(_mods, TagOf(RefKind(LabelAt(line_info, d[1])))) =
              FirstOfTag(_mods, OfTag(_mods, TagOf(RefKind(LabelAt(line_info, d[1])))))

====
